---- MODULE Spec2Model ----
(***************************************************************************)
(* Data-access layer of the Ethical AI dashboard front end (src/lib/api.ts) *)
(* as a state machine: every call of a catalog operation is a small process *)
(* that issues one fetch, may have a deadline timer, reads the body of the  *)
(* response and settles its promise.  The network and the timer are the     *)
(* environment.                                                             *)
(***************************************************************************)
EXTENDS Integers, Sequences, FiniteSets, TLC

VARIABLES
  env,           \* import.meta.env.VITE_API_BASE_URL, as the build provides it
  API_BASE_URL,  \* the module constant of api.ts
  calls,         \* the calls of catalog operations
  dash,          \* the Dashboard page
  page           \* a form page: BiasDetection, ComplianceReport or Explainability

vars == <<env, API_BASE_URL, calls, dash, page>>

(***************************************************************************)
(* Bounds of the model.                                                     *)
(***************************************************************************)
MaxCalls == 1          \* calls issued in one run
TickMs == 10000        \* granularity of the passage of time, in ms
MaxElapsed == 40000    \* a call is observed for at most this long, in ms
MaxDashFetches == 2    \* runs of fetchDashboardData: the mount and the refreshes
MaxSubmits == 2        \* requests a form page sends in one run
MaxAppWait == 10000    \* under the pages, a call whose timer is not armed is
                       \* observed for at most this long, in ms

CallIds == 1..MaxCalls

(***************************************************************************)
(* JSON values.  One record shape for all of them so that any two values    *)
(* can be compared: t is the type tag, s the text of a string, n the value  *)
(* of a number, f the members of an object as a sequence of <<key, value>>. *)
(***************************************************************************)
JUndefined == [t |-> "undefined", s |-> "", n |-> 0, f |-> <<>>]
JNull == [t |-> "null", s |-> "", n |-> 0, f |-> <<>>]
JStr(str) == [t |-> "string", s |-> str, n |-> 0, f |-> <<>>]
JNum(num) == [t |-> "number", s |-> "", n |-> num, f |-> <<>>]
\* the number NaN: falsy like 0, and "NaN" as text
JNaN == [t |-> "number", s |-> "NaN", n |-> 0, f |-> <<>>]
JObj(members) == [t |-> "object", s |-> "", n |-> 0, f |-> members]
JBlob(text) == [t |-> "blob", s |-> text, n |-> 0, f |-> <<>>]

JArr(items) == [t |-> "array", s |-> "", n |-> 0, f |-> items]
JFile(name) == [t |-> "file", s |-> name, n |-> 0, f |-> <<>>]

\* the value of `{}`
EmptyRecord == JObj(<<>>)

(***************************************************************************)
(* Bodies a server can send, as the text on the wire.                       *)
(***************************************************************************)
BodySummary == "{\"total_models_audited\":12,\"audit_status\":\"COMPLIANT\"}"
BodyMessage == "{\"message\":\"missing column\"}"
BodyEmptyMessage == "{\"message\":\"\"}"
BodyDetail == "{\"detail\":\"Not Found\"}"
BodyNull == "null"
BodyHtml == "<html>Bad Gateway</html>"
BodyModelRisks == "[{\"model_name\":\"hiring\",\"risk_score\":72,\"disparate_impact\":1}]"
BodyBiasResult ==
  "{\"audit_status\":\"COMPLIANT\",\"record_count\":104,\"metrics\":{\"disparate_impact\":1},\"recommendations\":[\"Monitor quarterly\"]}"

BodyObjectMessage == "{\"message\":{\"toString\":1}}"

Bodies ==
  {BodySummary, BodyMessage, BodyEmptyMessage, BodyDetail, BodyNull, BodyHtml,
   BodyModelRisks, BodyBiasResult, BodyObjectMessage}

\* JSON.parse restricted to Bodies: the text is JSON or it is not
IsJson(text) == text \in Bodies \ {BodyHtml}

\* JSON.parse restricted to Bodies: the decoded value of a JSON text
JsonParse(text) ==
  CASE text = BodySummary ->
         JObj(<< <<"total_models_audited", JNum(12)>>, <<"audit_status", JStr("COMPLIANT")>> >>)
    [] text = BodyMessage -> JObj(<< <<"message", JStr("missing column")>> >>)
    [] text = BodyEmptyMessage -> JObj(<< <<"message", JStr("")>> >>)
    [] text = BodyDetail -> JObj(<< <<"detail", JStr("Not Found")>> >>)
    [] text = BodyNull -> JNull
    [] text = BodyObjectMessage ->
         JObj(<< <<"message", JObj(<< <<"toString", JNum(1)>> >>)>> >>)
    [] text = BodyModelRisks ->
         JArr(<< JObj(<< <<"model_name", JStr("hiring")>>, <<"risk_score", JNum(72)>>,
                         <<"disparate_impact", JNum(1)>> >>) >>)
    [] text = BodyBiasResult ->
         JObj(<< <<"audit_status", JStr("COMPLIANT")>>, <<"record_count", JNum(104)>>,
                 <<"metrics", JObj(<< <<"disparate_impact", JNum(1)>> >>)>>,
                 <<"recommendations", JArr(<< JStr("Monitor quarterly") >>)>> >>)

\* value.key of JavaScript for a value that is neither null nor undefined and
\* a key that is the name of a data field: a member of an object, undefined on
\* an array, a string or a number
GetMember(value, key) ==
  IF value.t = "object" /\ \E i \in 1..Len(value.f) : value.f[i][1] = key
    THEN value.f[CHOOSE i \in 1..Len(value.f) : value.f[i][1] = key][2]
    ELSE JUndefined

\* JavaScript truthiness, as `||` tests it
Truthy(value) ==
  CASE value.t \in {"undefined", "null"} -> FALSE
    [] value.t = "string" -> value.s /= ""
    [] value.t = "number" -> value.n /= 0
    [] OTHER -> TRUE

\* String(value) throws: an object decoded from JSON with a member of its
\* own named toString, which is not callable (the inherited valueOf returns
\* the object, no primitive), or an array with such an item
RECURSIVE ToTextThrows(_)
ToTextThrows(value) ==
  CASE value.t = "object" -> \E i \in 1..Len(value.f) : value.f[i][1] = "toString"
    [] value.t = "array" -> \E i \in 1..Len(value.f) : ToTextThrows(value.f[i])
    [] OTHER -> FALSE

\* String(value), the conversion a template literal, FormData.append and the
\* Error constructor apply: Object.prototype.toString for objects,
\* Array.prototype.join for arrays.  It has no value where the conversion
\* throws (ToTextThrows); every use is behind that test
RECURSIVE ToText(_)
ToText(value) ==
  LET Item(i) == IF value.f[i].t \in {"undefined", "null"} THEN "" ELSE ToText(value.f[i])
      Join[i \in 0..Len(value.f)] ==
        IF i = 0 THEN ""
        ELSE IF i = 1 THEN Item(1)
        ELSE Join[i - 1] \o "," \o Item(i)
  IN CASE value.t = "string" -> value.s
       [] value.t = "number" -> IF value = JNaN THEN "NaN" ELSE ToString(value.n)
       [] value.t = "undefined" -> "undefined"
       [] value.t = "null" -> "null"
       [] value.t = "object" /\ ~ToTextThrows(value) -> "[object Object]"
       [] value.t = "blob" -> "[object Blob]"
       [] value.t = "file" -> "[object File]"
       [] value.t = "array" /\ ~ToTextThrows(value) -> Join[Len(value.f)]

\* String.prototype.includes
Includes(str, sub) ==
  \E i \in 1..(Len(str) - Len(sub) + 1) : SubSeq(str, i, i + Len(sub) - 1) = sub

(***************************************************************************)
(* Errors.  An error object of JavaScript: ApiError instances carry status  *)
(* and response, every other error only name and message (status -1 stands  *)
(* for "has no status field").                                              *)
(***************************************************************************)
NoError == [isApiError |-> FALSE, name |-> "", message |-> "", status |-> -1,
            response |-> JUndefined]

\* an error that is not an ApiError: DOMException, TypeError, SyntaxError
JsError(name, message) ==
  [isApiError |-> FALSE, name |-> name, message |-> message, status |-> -1,
   response |-> JUndefined]

\* new ApiError(message, status, response)
ApiError(message, status, response) ==
  [isApiError |-> TRUE, name |-> "ApiError", message |-> message, status |-> status,
   response |-> response]

\* what fetch rejects with when the connection cannot be made, per browser
FetchTypeErrors ==
  { JsError("TypeError", "Failed to fetch"),
    JsError("TypeError", "NetworkError when attempting to fetch resource."),
    JsError("TypeError", "Load failed") }

\* what fetch rejects with when its signal is aborted, per browser
AbortErrors ==
  { JsError("AbortError", "signal is aborted without reason"),
    JsError("AbortError", "Fetch is aborted") }

\* String(value) of an object that has no callable toString or valueOf
ToPrimitiveError == JsError("TypeError", "Cannot convert object to primitive value")

\* reading a property of null
NullMemberError == JsError("TypeError", "Cannot read properties of null (reading 'message')")

\* response.json() on a body that is not JSON
JsonSyntaxError ==
  JsError("SyntaxError", "Unexpected token '<', \"<html>Bad \"... is not valid JSON")

TimeoutMessage == "Request timeout - server may be unavailable"
CannotConnectMessage == "Network error - cannot connect to server"
UnclassifiedMessage == "Network error or server unavailable"

(***************************************************************************)
(* Endpoint catalog.                                                        *)
(***************************************************************************)
JsonOps == {"getSummary", "getModelRisk", "getComplianceTrend"}
FormOps == {"detect", "explain"}
Ops == JsonOps \cup FormOps \cup {"generateReport"}

\* which function performs the request of an operation
Executor(op) ==
  CASE op \in JsonOps -> "apiRequest"
    [] op \in FormOps -> "apiFormRequest"
    [] op = "generateReport" -> "generateReport"

Method(op) == IF op \in JsonOps THEN "GET" ELSE "POST"

\* Path with the explain endpoint misspelt
Path_ExplainMisspelt(op) ==
  CASE op = "getSummary" -> "/api/v1/dashboard/summary"
    [] op = "getModelRisk" -> "/api/v1/dashboard/model_risk"
    [] op = "getComplianceTrend" -> "/api/v1/dashboard/compliance_trend"
    [] op = "detect" -> "/api/v1/bias/detect"
    [] op = "explain" -> "/api/v1/explainability"
    [] op = "generateReport" -> "/api/v1/compliance/generate"

Path(op) ==
  CASE op = "getSummary" -> "/api/v1/dashboard/summary"
    [] op = "getModelRisk" -> "/api/v1/dashboard/model_risk"
    [] op = "getComplianceTrend" -> "/api/v1/dashboard/compliance_trend"
    [] op = "detect" -> "/api/v1/bias/detect"
    [] op = "explain" -> "/api/v1/explain"
    [] op = "generateReport" -> "/api/v1/compliance/generate"

\* values of VITE_API_BASE_URL: not set, set to nothing, set to an address
EnvValues == {JUndefined, JStr(""), JStr("https://api.example.com")}

DefaultBaseUrl == "http://localhost:8000"

\* ResolveBaseUrl that ignores the environment
ResolveBaseUrl_IgnoresEnv(value) == DefaultBaseUrl

\* import.meta.env.VITE_API_BASE_URL || 'http://localhost:8000'
ResolveBaseUrl(value) == IF Truthy(value) THEN ToText(value) ELSE DefaultBaseUrl

\* arguments of a call; the operations of dashboardApi take none
NoArgs ==
  [file |-> JUndefined, model_name |-> "", model_version |-> "", target_variable |-> "",
   sensitive_attribute |-> "", privileged_group |-> "", unprivileged_group |-> "",
   instance_index |-> 0, role |-> JUndefined]

ArgsHiring ==
  [file |-> JFile("hiring.csv"), model_name |-> "m1", model_version |-> "1.0",
   target_variable |-> "hired", sensitive_attribute |-> "gender",
   privileged_group |-> "Male", unprivileged_group |-> "Female",
   instance_index |-> 0, role |-> JUndefined]

ArgsLoans ==
  [file |-> JFile("loans.csv"), model_name |-> "credit", model_version |-> "2.1",
   target_variable |-> "approved", sensitive_attribute |-> "age",
   privileged_group |-> "over40", unprivileged_group |-> "under40",
   instance_index |-> 12, role |-> JStr("technical")]

\* the arguments an operation is called with: detect has no instance index
\* and no role, explain has no groups and always a role, generateReport has
\* no instance index and an optional role
ArgsOf(op) ==
  CASE op \in JsonOps -> {NoArgs}
    [] op = "detect" ->
         { [a EXCEPT !.instance_index = 0, !.role = JUndefined] : a \in {ArgsHiring, ArgsLoans} }
    [] op = "explain" ->
         { [a EXCEPT !.privileged_group = "", !.unprivileged_group = "",
                     !.role = IF a.role = JUndefined THEN JStr("executive") ELSE a.role] :
           a \in {ArgsHiring, ArgsLoans} }
    [] op = "generateReport" ->
         { [a EXCEPT !.instance_index = 0] : a \in {ArgsHiring, ArgsLoans} }

\* DetectForm with the two group fields appended in the other order
DetectForm_GroupsSwapped(args) ==
  << <<"file", args.file>>,
     <<"model_name", JStr(args.model_name)>>,
     <<"model_version", JStr(args.model_version)>>,
     <<"target_variable", JStr(args.target_variable)>>,
     <<"sensitive_attribute", JStr(args.sensitive_attribute)>>,
     <<"unprivileged_group", JStr(args.unprivileged_group)>>,
     <<"privileged_group", JStr(args.privileged_group)>> >>

\* the FormData of biasDetectionApi.detect, in the order of the appends
DetectForm(args) ==
  << <<"file", args.file>>,
     <<"model_name", JStr(args.model_name)>>,
     <<"model_version", JStr(args.model_version)>>,
     <<"target_variable", JStr(args.target_variable)>>,
     <<"sensitive_attribute", JStr(args.sensitive_attribute)>>,
     <<"privileged_group", JStr(args.privileged_group)>>,
     <<"unprivileged_group", JStr(args.unprivileged_group)>> >>

\* the FormData of explainabilityApi.explain
ExplainForm(args) ==
  << <<"file", args.file>>,
     <<"model_name", JStr(args.model_name)>>,
     <<"model_version", JStr(args.model_version)>>,
     <<"target_variable", JStr(args.target_variable)>>,
     <<"sensitive_attribute", JStr(args.sensitive_attribute)>>,
     <<"instance_index", JStr(ToString(args.instance_index))>>,
     <<"role", JStr(ToText(args.role))>> >>

\* RoleOrDefault that always sends the default
RoleOrDefault_AlwaysDefault(role) == "executive"

\* role: string = 'executive': the default applies to an omitted argument
RoleOrDefault(role) == IF role = JUndefined THEN "executive" ELSE ToText(role)

\* the FormData of complianceApi.generateReport
GenerateReportForm(args) ==
  << <<"file", args.file>>,
     <<"model_name", JStr(args.model_name)>>,
     <<"model_version", JStr(args.model_version)>>,
     <<"target_variable", JStr(args.target_variable)>>,
     <<"sensitive_attribute", JStr(args.sensitive_attribute)>>,
     <<"privileged_group", JStr(args.privileged_group)>>,
     <<"unprivileged_group", JStr(args.unprivileged_group)>>,
     <<"role", JStr(RoleOrDefault(args.role))>> >>

\* the Content-Type header the executor sets: apiRequest only
ContentType(op) == IF Executor(op) = "apiRequest" THEN "application/json" ELSE ""

\* the body of the request of an operation: none for the GET operations
RequestBody(op, args) ==
  CASE op \in JsonOps -> <<>>
    [] op = "detect" -> DetectForm(args)
    [] op = "explain" -> ExplainForm(args)
    [] op = "generateReport" -> GenerateReportForm(args)

JsonTimeoutMs == 10000
FormTimeoutMs == 30000

\* the executors that arm a deadline timer and wrap the request in try/catch
HasTimer(op) == Executor(op) \in {"apiRequest", "apiFormRequest"}
HasCatch(op) == Executor(op) \in {"apiRequest", "apiFormRequest"}

\* delay of the setTimeout of the executor
TimeoutMs(op) == IF Executor(op) = "apiRequest" THEN JsonTimeoutMs ELSE FormTimeoutMs

(***************************************************************************)
(* Responses.                                                               *)
(***************************************************************************)
\* status line of a response: HTTP/1.1 sends a reason phrase, HTTP/2 none
StatusLines ==
  { [status |-> 200, statusText |-> "OK"],
    [status |-> 422, statusText |-> "Unprocessable Entity"],
    [status |-> 500, statusText |-> ""] }

NoResponse == [status |-> 0, statusText |-> "", body |-> ""]

Responses == { [status |-> l.status, statusText |-> l.statusText, body |-> b] :
               l \in StatusLines, b \in Bodies }

\* response.ok
Ok(response) == response.status >= 200 /\ response.status <= 299

\* await response.json().catch(() => ({}))
ErrorData(response) ==
  IF IsJson(response.body) THEN JsonParse(response.body) ELSE EmptyRecord

\* errorData.message || `HTTP ${response.status}: ${response.statusText}`
ErrorMessage(response, errorData) ==
  IF Truthy(GetMember(errorData, "message"))
    THEN ToText(GetMember(errorData, "message"))
    ELSE "HTTP " \o ToString(response.status) \o ": " \o response.statusText

\* the throw of the `if (!response.ok)` block: the ApiError, or the TypeError
\* of reading .message of null, or the TypeError of super(message) for a
\* message that has no conversion to a string
NotOkThrow(response) ==
  LET errorData == ErrorData(response) IN
  IF errorData.t = "null"
    THEN NullMemberError
  ELSE IF Truthy(GetMember(errorData, "message"))
          /\ ToTextThrows(GetMember(errorData, "message"))
    THEN ToPrimitiveError
    ELSE ApiError(ErrorMessage(response, errorData), response.status, errorData)

\* CatchBlock without its `instanceof ApiError` branch
CatchBlock_NoPassThrough(error) ==
  IF error.name = "AbortError" THEN ApiError(TimeoutMessage, 0, JUndefined)
  ELSE IF error.name = "TypeError" /\ Includes(error.message, "fetch")
    THEN ApiError(CannotConnectMessage, 0, JUndefined)
  ELSE ApiError(UnclassifiedMessage, 0, JUndefined)

\* CatchBlock without its AbortError branch
CatchBlock_NoAbortBranch(error) ==
  IF error.isApiError THEN error
  ELSE IF error.name = "TypeError" /\ Includes(error.message, "fetch")
    THEN ApiError(CannotConnectMessage, 0, JUndefined)
  ELSE ApiError(UnclassifiedMessage, 0, JUndefined)

\* the catch block of apiRequest and apiFormRequest: the error it rethrows
CatchBlock(error) ==
  IF error.isApiError THEN error
  ELSE IF error.name = "AbortError" THEN ApiError(TimeoutMessage, 0, JUndefined)
  ELSE IF error.name = "TypeError" /\ Includes(error.message, "fetch")
    THEN ApiError(CannotConnectMessage, 0, JUndefined)
  ELSE ApiError(UnclassifiedMessage, 0, JUndefined)

\* what a throw inside the body of an operation rejects the call with
Thrown(op, error) == IF HasCatch(op) THEN CatchBlock(error) ELSE error

(***************************************************************************)
(* Calls.                                                                   *)
(*   op, args the operation called and its arguments                        *)
(*   method, path, url, contentType, body  the request handed to fetch;     *)
(*           contentType is the Content-Type header the code sets, body the *)
(*           FormData as a sequence of <<name, value>>, empty without body  *)
(*   pc      "idle", "fetch" (awaiting fetch), "errBody" (awaiting the body *)
(*           of a response that is not ok), "okBody" (awaiting the body of  *)
(*           an ok response), "done" (promise settled)                      *)
(*   timer   "none", "armed", "cleared", "fired"                            *)
(*   elapsed ms since the call started                                      *)
(*   fetches number of fetch() invocations                                  *)
(*   respAt  elapsed when the response arrived, -1 before                   *)
(*   doneAt  elapsed when the promise settled, -1 before                    *)
(*   settled "pending", "fulfilled", "rejected"                             *)
(*   value   what the promise fulfilled with                                *)
(*   thrown  the error thrown inside the operation                          *)
(*   error   the error the promise rejected with                            *)
(*   orphan  the page has started new calls since; nothing awaits this one  *)
(***************************************************************************)
IdleCall ==
  [op |-> "none", args |-> NoArgs, method |-> "", path |-> "", url |-> "",
   contentType |-> "", body |-> <<>>,
   pc |-> "idle", timer |-> "none",
   elapsed |-> 0, fetches |-> 0, response |-> NoResponse, respAt |-> -1,
   doneAt |-> -1,
   settled |-> "pending", value |-> JUndefined, thrown |-> NoError,
   error |-> NoError, orphan |-> FALSE]

\* the Dashboard page before it is mounted: the useState initial values
DashInit ==
  [pc |-> "unmounted", dashboardData |-> JNull, modelRisks |-> JArr(<<>>),
   loading |-> TRUE, toast |-> "", fetches |-> 0, first |-> 0]

\* the values every form page starts from: the useState initial values of the
\* page and of its FileUpload
\*   kind     which page component this is, "none" where no form page is shown
\*   file, fields  the form of the page
\*   selectedFile  the state of the FileUpload component
\*   pc       "idle", "awaiting" (the submit handler is at its await)
\*   result   BiasDetection.result and Explainability.result
\*   reportGenerated, pdfBlob, complianceStatus  the state of ComplianceReport
\*   toast    the last toast shown
\*   submits  requests sent so far
\*   closure  the form fields the running mock of Explainability has captured
NoToast == [title |-> "", description |-> ""]

PendingStatus ==
  [gdpr |-> "pending", eeoc |-> "pending", eu_ai_act |-> "pending",
   internal_policy |-> "pending"]

EmptyFields ==
  [model_name |-> "", model_version |-> "", target_variable |-> "",
   sensitive_attribute |-> "", privileged_group |-> "", unprivileged_group |-> "",
   instance_index |-> 0, role |-> "executive"]

PageInit(kind) ==
  [kind |-> kind, file |-> JNull, fields |-> EmptyFields, selectedFile |-> JNull,
   pc |-> "idle", loading |-> FALSE, result |-> JNull,
   reportGenerated |-> FALSE, pdfBlob |-> JNull, complianceStatus |-> PendingStatus,
   toast |-> NoToast, submits |-> 0, closure |-> EmptyFields]

NoPage == PageInit("none")

\* module load: API_BASE_URL is computed from the environment
Init ==
  /\ env \in EnvValues
  /\ API_BASE_URL = ResolveBaseUrl(env)
  /\ calls = [c \in CallIds |-> IdleCall]
  /\ dash = DashInit
  /\ page = NoPage

\* two calls side by side
PairIds == {1, 2}

InitPair ==
  /\ env = JUndefined
  /\ API_BASE_URL = ResolveBaseUrl(env)
  /\ calls = [c \in PairIds |-> IdleCall]
  /\ dash = DashInit
  /\ page = NoPage

\* the call record after the synchronous part of an operation, up to
\* `await fetch`: the form is built, the timer armed, fetch invoked
Started(call, op, args) ==
  [call EXCEPT !.op = op, !.args = args, !.method = Method(op), !.path = Path(op),
               !.url = API_BASE_URL \o Path(op), !.contentType = ContentType(op),
               !.body = RequestBody(op, args),
               !.timer = IF HasTimer(op) THEN "armed" ELSE "none",
               !.fetches = call.fetches + 1, !.pc = "fetch"]

\* a catalog operation is called
StartCall(c, op, args) ==
  /\ calls[c].pc = "idle"
  /\ \A d \in DOMAIN calls : d < c => calls[d].pc /= "idle"
  /\ calls' = [calls EXCEPT ![c] = Started(calls[c], op, args)]

\* a call that still has something to do: an await of it is pending or its
\* timer is armed
Live(call) == call.pc \in {"fetch", "okBody", "errBody"} \/ call.timer = "armed"

\* the earlier calls that go on when a page starts new ones: nothing awaits
\* them any more, but their fetches are still in flight and their timers
\* still armed.  A call that has settled and has no timer armed has nothing
\* left to do; its record leaves the model.
Orphans(cs) ==
  [i \in 1..Len(SelectSeq(cs, Live)) |->
     [SelectSeq(cs, Live)[i] EXCEPT !.orphan = TRUE, !.value = JUndefined,
                                    !.thrown = NoError, !.error = NoError]]

\* what an orphan settles with reaches nobody and is not recorded
Unobserved(call) ==
  IF call.orphan
    THEN [call EXCEPT !.value = JUndefined, !.thrown = NoError, !.error = NoError]
    ELSE call

\* the calls after call c has become `call`: an orphan that has nothing left
\* to do leaves the model
Put(c, call) ==
  IF call.orphan /\ ~Live(call)
    THEN [i \in 1..(Len(calls) - 1) |-> IF i < c THEN calls[i] ELSE calls[i + 1]]
    ELSE [calls EXCEPT ![c] = Unobserved(call)]

\* how far the clock of a call runs: an armed timer is due at its delay, a
\* call without timer is observed up to MaxElapsed
ClockCap(call) == IF call.timer = "armed" THEN TimeoutMs(call.op) ELSE MaxElapsed

\* time passes while an await of the call is pending (fetch, or the body of
\* the response, which is read with the timer already cleared) or while the
\* timer is armed
Tick(c) ==
  /\ calls[c].pc \in {"fetch", "okBody", "errBody"} \/ calls[c].timer = "armed"
  /\ calls[c].elapsed < ClockCap(calls[c])
  /\ calls' = Put(c, [calls[c] EXCEPT !.elapsed = @ + TickMs])

\* the promise of the call rejects with what the throw of `error` becomes
Reject(call, error) ==
  [call EXCEPT !.pc = "done", !.doneAt = call.elapsed, !.settled = "rejected",
               !.thrown = error, !.error = Thrown(call.op, error)]

\* fetch resolves with a response: clearTimeout, then the body is awaited
FetchResolve(c, response) ==
  /\ calls[c].pc = "fetch"
  /\ calls' = Put(c,
       [calls[c] EXCEPT !.response = response, !.respAt = calls[c].elapsed,
                        !.timer = IF calls[c].timer = "armed" THEN "cleared" ELSE calls[c].timer,
                        !.pc = IF Ok(response) THEN "okBody" ELSE "errBody"])

\* fetch rejects because the connection failed
FetchReject(c, error) ==
  /\ calls[c].pc = "fetch"
  /\ calls' = Put(c, Reject(calls[c], error))

\* the deadline timer fires: controller.abort(); a pending fetch rejects
FireTimer(c, error) ==
  /\ calls[c].timer = "armed"
  /\ calls[c].elapsed >= TimeoutMs(calls[c].op)
  /\ calls' = Put(c,
       IF calls[c].pc = "fetch"
         THEN [Reject(calls[c], error) EXCEPT !.timer = "fired"]
         ELSE [calls[c] EXCEPT !.timer = "fired"])

\* the body of a response that is not ok has been read
ReadErrorBody(c) ==
  /\ calls[c].pc = "errBody"
  /\ calls' = Put(c, Reject(calls[c], NotOkThrow(calls[c].response)))

\* the promise of the call fulfils with a value
Fulfil(call, value) ==
  [call EXCEPT !.pc = "done", !.doneAt = call.elapsed, !.settled = "fulfilled",
               !.value = value]

\* ReadBody fulfilling with undefined when the body is not JSON
ReadBody_UndefinedOnBadJson(c) ==
  /\ calls[c].pc = "okBody"
  /\ calls' = Put(c,
       IF calls[c].op = "generateReport"
         THEN Fulfil(calls[c], JBlob(calls[c].response.body))
       ELSE IF IsJson(calls[c].response.body)
         THEN Fulfil(calls[c], JsonParse(calls[c].response.body))
       ELSE Fulfil(calls[c], JUndefined))

\* ReadBody returning the error-path value `{}` in place of the decoded body
ReadBody_EmptyRecord(c) ==
  /\ calls[c].pc = "okBody"
  /\ calls' = Put(c,
       IF calls[c].op = "generateReport"
         THEN Fulfil(calls[c], JBlob(calls[c].response.body))
       ELSE IF IsJson(calls[c].response.body)
         THEN Fulfil(calls[c], EmptyRecord)
       ELSE Reject(calls[c], JsonSyntaxError))

\* return await response.json()  /  return response.blob()
ReadBody(c) ==
  /\ calls[c].pc = "okBody"
  /\ calls' = Put(c,
       IF calls[c].op = "generateReport"
         THEN Fulfil(calls[c], JBlob(calls[c].response.body))
       ELSE IF IsJson(calls[c].response.body)
         THEN Fulfil(calls[c], JsonParse(calls[c].response.body))
       ELSE Reject(calls[c], JsonSyntaxError))

\* what the calls of the data-access layer leave alone
ApiFrame == UNCHANGED <<env, API_BASE_URL, dash, page>>

Next ==
  \/ \E c \in DOMAIN calls, op \in Ops : \E args \in ArgsOf(op) : StartCall(c, op, args) /\ ApiFrame
  \/ \E c \in DOMAIN calls : Tick(c) /\ ApiFrame
  \/ \E c \in DOMAIN calls, response \in Responses : FetchResolve(c, response) /\ ApiFrame
  \/ \E c \in DOMAIN calls, error \in FetchTypeErrors : FetchReject(c, error) /\ ApiFrame
  \/ \E c \in DOMAIN calls, error \in AbortErrors : FireTimer(c, error) /\ ApiFrame
  \/ \E c \in DOMAIN calls : ReadErrorBody(c) /\ ApiFrame
  \/ \E c \in DOMAIN calls : ReadBody(c) /\ ApiFrame

Spec == Init /\ [][Next]_vars

\* the arguments used when two calls run side by side: one set per operation
PairArgsOf(op) == { a \in ArgsOf(op) : a.file \in {JUndefined, JFile("hiring.csv")} }

\* the responses met when two calls run side by side: a success and a failing
\* status, each with an object, with `null` and with a body that is not JSON
PairResponses ==
  { r \in Responses :
      \/ r.status = 200 /\ r.body \in {BodySummary, BodyNull, BodyHtml}
      \/ r.status = 422 /\ r.body \in {BodyMessage, BodyNull, BodyHtml} }

NextPair ==
  \/ \E c \in DOMAIN calls, op \in Ops : \E args \in PairArgsOf(op) : StartCall(c, op, args) /\ ApiFrame
  \/ \E c \in DOMAIN calls : Tick(c) /\ ApiFrame
  \/ \E c \in DOMAIN calls, response \in PairResponses : FetchResolve(c, response) /\ ApiFrame
  \/ \E c \in DOMAIN calls, error \in FetchTypeErrors : FetchReject(c, error) /\ ApiFrame
  \/ \E c \in DOMAIN calls, error \in AbortErrors : FireTimer(c, error) /\ ApiFrame
  \/ \E c \in DOMAIN calls : ReadErrorBody(c) /\ ApiFrame
  \/ \E c \in DOMAIN calls : ReadBody(c) /\ ApiFrame

SpecPair == InitPair /\ [][NextPair]_vars

(***************************************************************************)
(* The Dashboard page (src/pages/Dashboard.tsx).  Call 1 is getSummary and   *)
(* call 2 getModelRisk of the running fetchDashboardData.                    *)
(*   pc      "unmounted", "awaiting" (at the await of Promise.all),          *)
(*           "settled" (fetchDashboardData has returned)                     *)
(*   dashboardData, modelRisks, loading  the React state                     *)
(*   toast   description of the last toast, "" if none                       *)
(*   fetches runs of fetchDashboardData so far                               *)
(*   first   the call of the running fetch that settled first, 0 if none     *)
(***************************************************************************)
DashIds == {1, 2}
SummaryCall == 1
ModelRiskCall == 2

\* fallbackSummary; its timestamp is the clock reading at the failure
FallbackSummary ==
  JObj(<< <<"timestamp", JStr("new Date().toISOString()")>>,
          <<"total_models_audited", JNum(0)>>,
          <<"compliant_models", JNum(0)>>,
          <<"non_compliant_models", JNum(0)>>,
          <<"compliance_rate", JNum(0)>>,
          <<"top_bias_source", JStr("N/A")>>,
          <<"most_risky_model", JStr("N/A")>>,
          <<"audit_status", JStr("offline")>>,
          <<"risk_score", JNum(0)>>,
          <<"last_audit", JStr("N/A")>>,
          <<"pending_actions", JNum(0)>>,
          <<"trend", JStr("unknown")>> >>)

OfflineMessage == "Backend API not available - showing offline mode"

\* error instanceof ApiError ? error.message : fallback text
ToastMessage(error, fallback) == IF error.isApiError THEN error.message ELSE fallback

InitDash ==
  /\ env = JUndefined
  /\ API_BASE_URL = ResolveBaseUrl(env)
  /\ calls = [c \in DashIds |-> IdleCall]
  /\ dash = DashInit
  /\ page = NoPage

\* a value React accepts as a child: a primitive, or an array, at any depth,
\* of such values; an object as a child makes the render throw
IsPrimitive(value) == value.t \in {"undefined", "null", "string", "number"}
RECURSIVE IsReactChild(_)
IsReactChild(value) ==
  \/ IsPrimitive(value)
  \/ value.t = "array" /\ \A i \in 1..Len(value.f) : IsReactChild(value.f[i])

\* a row of the Model Risk Breakdown table renders: reading a member of null
\* or undefined throws, and so does .toFixed of what is not a number
DashRowRenders(model) ==
  /\ model.t \notin {"undefined", "null"}
  /\ \A key \in {"model_name", "version", "status", "risk_score", "bias_source",
                  "last_audited"} : IsReactChild(GetMember(model, key))
  /\ GetMember(model, "disparate_impact").t = "number"

\* the render of the Dashboard completes: the spinner while loading, nothing
\* without dashboardData, else the page, whose modelRisks.map needs an array.
\* A render that throws leaves nothing of the page on the screen.
DashRenders(d) ==
  \/ d.loading
  \/ ~Truthy(d.dashboardData)
  \/ /\ \A key \in {"total_models_audited", "compliant_models", "non_compliant_models",
                      "pending_actions", "risk_score", "most_risky_model",
                      "top_bias_source"} : IsReactChild(GetMember(d.dashboardData, key))
     /\ d.modelRisks.t = "array"
     /\ \A i \in 1..Len(d.modelRisks.f) : DashRowRenders(d.modelRisks.f[i])

\* the Refresh button is on the screen: not loading, dashboardData is set and
\* the page has rendered
RefreshShown ==
  /\ dash.pc = "settled"
  /\ ~dash.loading
  /\ Truthy(dash.dashboardData)
  /\ DashRenders(dash)

\* fetchDashboardData up to the await: setLoading(true), both calls are
\* dispatched.  It runs on mount and on a click on Refresh.  The calls of the
\* running fetch are calls 1 and 2; the calls of the previous run that are
\* still in flight or have a timer armed go on behind them.
DashFetch ==
  /\ dash.pc = "unmounted" \/ RefreshShown
  /\ dash.fetches < MaxDashFetches
  /\ calls' = << Started(IdleCall, "getSummary", NoArgs),
                 Started(IdleCall, "getModelRisk", NoArgs) >> \o Orphans(calls)
  /\ dash' = [dash EXCEPT !.pc = "awaiting", !.loading = TRUE, !.fetches = dash.fetches + 1,
                          !.first = 0]
  /\ UNCHANGED <<env, API_BASE_URL, page>>

\* the catch block and the finally of fetchDashboardData
DashCatch(d, error) ==
  [d EXCEPT !.pc = "settled", !.dashboardData = FallbackSummary, !.modelRisks = JArr(<<>>),
            !.toast = ToastMessage(error, OfflineMessage), !.loading = FALSE]

\* the statements after the await and the finally of fetchDashboardData
DashSuccess(d, summaryResponse, modelRiskResponse) ==
  [d EXCEPT !.pc = "settled", !.dashboardData = summaryResponse,
            !.modelRisks = modelRiskResponse, !.loading = FALSE]

\* the call that settled first in the running fetch
FirstSettled(d, after) ==
  IF d.first = 0 /\ \E c \in DashIds : after[c].pc = "done"
    THEN [d EXCEPT !.first = CHOOSE c \in DashIds : after[c].pc = "done"]
    ELSE d

\* Continue merging what has arrived when a call fails
Continue_PartialMerge(d, after) ==
  LET e == FirstSettled(d, after) IN
  IF e.pc /= "awaiting" THEN e
  ELSE IF \E c \in DashIds : after[c].settled = "rejected"
    THEN [DashCatch(e, after[CHOOSE c \in DashIds : after[c].settled = "rejected"].error)
            EXCEPT !.dashboardData = IF after[SummaryCall].settled = "fulfilled"
                                       THEN after[SummaryCall].value ELSE FallbackSummary]
  ELSE IF \A c \in DashIds : after[c].settled = "fulfilled"
    THEN DashSuccess(e, after[SummaryCall].value, after[ModelRiskCall].value)
  ELSE e

\* Continue going on as soon as one call has fulfilled
Continue_FirstFulfilled(d, after) ==
  LET e == FirstSettled(d, after) IN
  IF e.pc /= "awaiting" THEN e
  ELSE IF \E c \in DashIds : after[c].settled = "rejected"
    THEN DashCatch(e, after[CHOOSE c \in DashIds : after[c].settled = "rejected"].error)
  ELSE IF \E c \in DashIds : after[c].settled = "fulfilled"
    THEN DashSuccess(e, after[SummaryCall].value, after[ModelRiskCall].value)
  ELSE e

\* Continue taking the results in the order of completion
Continue_CompletionOrder(d, after) ==
  LET e == FirstSettled(d, after) IN
  IF e.pc /= "awaiting" THEN e
  ELSE IF \E c \in DashIds : after[c].settled = "rejected"
    THEN DashCatch(e, after[CHOOSE c \in DashIds : after[c].settled = "rejected"].error)
  ELSE IF \A c \in DashIds : after[c].settled = "fulfilled"
    THEN DashSuccess(e, after[e.first].value, after[3 - e.first].value)
  ELSE e

\* the await of Promise.all([getSummary(), getModelRisk()]) and what follows
\* it, run when the calls have become `after`: Promise.all rejects with the
\* first rejection and fulfils when both calls have fulfilled
Continue(d, after) ==
  LET e == FirstSettled(d, after) IN
  IF e.pc /= "awaiting" THEN e
  ELSE IF \E c \in DashIds : after[c].settled = "rejected"
    THEN DashCatch(e, after[CHOOSE c \in DashIds : after[c].settled = "rejected"].error)
  ELSE IF \A c \in DashIds : after[c].settled = "fulfilled"
    THEN DashSuccess(e, after[SummaryCall].value, after[ModelRiskCall].value)
  ELSE e

\* a step of a call, followed at once by the continuation of the page
DashFrame == dash' = Continue(dash, calls') /\ UNCHANGED <<env, API_BASE_URL, page>>

\* time passes for a call of a page
AppTick(c) ==
  /\ calls[c].timer = "armed" \/ calls[c].elapsed < MaxAppWait
  /\ Tick(c)

\* the connection failures the pages are run against: one whose message the
\* catch block recognises and one it does not
PageFetchErrors ==
  { JsError("TypeError", "Failed to fetch"), JsError("TypeError", "Load failed") }

\* the responses the Dashboard is run against: a success with a summary, with
\* a list of model risks and with `null`, and a failing status with a message
DashResponses ==
  { r \in Responses :
      \/ r.status = 200 /\ r.body \in {BodySummary, BodyModelRisks, BodyNull}
      \/ r.status = 422 /\ r.body = BodyMessage }

NextDash ==
  \/ DashFetch
  \/ \E c \in DOMAIN calls : AppTick(c) /\ DashFrame
  \/ \E c \in DOMAIN calls, response \in DashResponses : FetchResolve(c, response) /\ DashFrame
  \/ \E c \in DOMAIN calls, error \in PageFetchErrors : FetchReject(c, error) /\ DashFrame
  \/ \E c \in DOMAIN calls, error \in AbortErrors : FireTimer(c, error) /\ DashFrame
  \/ \E c \in DOMAIN calls : ReadErrorBody(c) /\ DashFrame
  \/ \E c \in DOMAIN calls : ReadBody(c) /\ DashFrame

SpecDash == InitDash /\ [][NextDash]_vars

(***************************************************************************)
(* The FileUpload component (src/components/common/FileUpload).             *)
(***************************************************************************)
\* the default of the maxSize prop, in MB; no page passes another value
MaxSizeMB == 10
BytesPerMB == 1024 * 1024

\* the files a user picks: name and size in bytes
HiringCsv == JFile("HIRING.CSV")
BigCsv == JFile("big.csv")
NotesTxt == JFile("notes.txt")
Files == {HiringCsv, BigCsv, NotesTxt}

FileSize(file) ==
  CASE file = HiringCsv -> 10 * BytesPerMB
    [] file = BigCsv -> 10 * BytesPerMB + 1
    [] file = NotesTxt -> 512

\* String.prototype.toLowerCase on the names of Files
ToLowerCase(name) == IF name = "HIRING.CSV" THEN "hiring.csv" ELSE name

\* String.prototype.endsWith
EndsWith(str, suffix) ==
  /\ Len(str) >= Len(suffix)
  /\ SubSeq(str, Len(str) - Len(suffix) + 1, Len(str)) = suffix

\* (bytes / 1024 / 1024).toFixed(2)
ToFixed2MB(bytes) ==
  LET hundredths == (bytes * 100 + BytesPerMB \div 2) \div BytesPerMB IN
  ToString(hundredths \div 100) \o "." \o ToString((hundredths % 100) \div 10)
    \o ToString(hundredths % 10)

\* handleFileSelect of the page: the form takes the file
HandleFileSelect(p, file) == [p EXCEPT !.file = file]

\* FileUpload.handleFileChange: the size check, the type check, then the
\* file becomes the selected file and is handed to the page
HandleFileChange(p, file) ==
  IF FileSize(file) > MaxSizeMB * BytesPerMB
    THEN [p EXCEPT !.toast =
           [title |-> "File too large",
            description |-> "File size must be less than " \o ToString(MaxSizeMB) \o "MB"]]
  ELSE IF ~EndsWith(ToLowerCase(file.s), ".csv")
    THEN [p EXCEPT !.toast =
           [title |-> "Invalid file type", description |-> "Please upload a CSV file"]]
  ELSE [HandleFileSelect(p, file) EXCEPT
          !.selectedFile = file,
          !.toast = [title |-> "File uploaded successfully",
                     description |-> file.s \o " (" \o ToFixed2MB(FileSize(file)) \o "MB)"]]

\* FileUpload.removeFile: setSelectedFile(null), and nothing else
RemoveFile(p) == [p EXCEPT !.selectedFile = JNull]

(***************************************************************************)
(* The form pages (src/pages/BiasDetection.tsx, ComplianceReport.tsx,        *)
(* Explainability.tsx).  The call of the page is call 1.                     *)
(***************************************************************************)
PageKinds == {"BiasDetection", "ComplianceReport", "Explainability"}
PageCall == 1

\* requiredFields of validateForm
RequiredFields(kind) ==
  IF kind = "Explainability"
    THEN <<"model_name", "model_version", "target_variable", "sensitive_attribute">>
    ELSE <<"model_name", "model_version", "target_variable", "sensitive_attribute",
           "privileged_group", "unprivileged_group">>

\* str.replace(from, to) for a one-character `from`: the first occurrence only
ReplaceFirst(str, from, to) ==
  IF \E i \in 1..Len(str) : SubSeq(str, i, i) = from
    THEN LET i == CHOOSE j \in 1..Len(str) :
                    /\ SubSeq(str, j, j) = from
                    /\ \A k \in 1..(j - 1) : SubSeq(str, k, k) /= from
         IN SubSeq(str, 1, i - 1) \o to \o SubSeq(str, i + 1, Len(str))
    ELSE str

\* the required fields of the form that are empty, as indices
MissingFields(p) ==
  { i \in 1..Len(RequiredFields(p.kind)) : p.fields[RequiredFields(p.kind)[i]] = "" }

\* ValidateForm that does not look at the last required field
ValidateForm_SkipsLastField(p) ==
  /\ Truthy(p.file)
  /\ MissingFields(p) \subseteq {Len(RequiredFields(p.kind))}

\* validateForm: its return value
ValidateForm(p) == Truthy(p.file) /\ MissingFields(p) = {}

\* validateForm: the toast of the first check that fails
ValidationToast(p) ==
  IF ~Truthy(p.file)
    THEN [title |-> "File required", description |-> "Please upload a CSV file"]
    ELSE LET i == CHOOSE j \in MissingFields(p) : \A k \in MissingFields(p) : j <= k IN
         [title |-> "Missing required field",
          description |-> "Please fill in " \o ReplaceFirst(RequiredFields(p.kind)[i], "_", " ")]

\* what the user types into a field: nothing, or the value of ArgsHiring
FieldNames6 ==
  {"model_name", "model_version", "target_variable", "sensitive_attribute",
   "privileged_group", "unprivileged_group"}

\* the items of the role Select
RoleItems == {"executive", "compliance", "technical"}

\* what the user types into the instance index input
InstanceTexts == {"7", ""}

\* the white space parseInt skips that a string of this module can hold:
\* space, tab, line feed, carriage return, form feed, and after them U+000B
\* (vertical tab), U+00A0 (no-break space), U+1680 (ogham space mark) and
\* U+FEFF (zero width no-break space)
WhiteSpace == {" ", "\t", "\n", "\r", "\f", "", " ", " ", "﻿"}
\* ch is a digit of the radix, in either case
IsDigit(ch, radix) ==
  \E d \in 0..(radix - 1) : ch \in {SubSeq("0123456789abcdef", d + 1, d + 1),
                                    SubSeq("0123456789ABCDEF", d + 1, d + 1)}
\* the value of a digit of the radix
DigitValue(ch, radix) ==
  CHOOSE d \in 0..(radix - 1) : ch \in {SubSeq("0123456789abcdef", d + 1, d + 1),
                                        SubSeq("0123456789ABCDEF", d + 1, d + 1)}
\* parseInt(text): leading white space is skipped, then an optional sign,
\* then a 0x or 0X prefix selects radix 16; the result is the number the
\* longest prefix of digits of the radix spells, or NaN without such a prefix
ParseInt(text) ==
  LET blanks == CHOOSE j \in 0..Len(text) :
                  /\ \A i \in 1..j : SubSeq(text, i, i) \in WhiteSpace
                  /\ j < Len(text) => SubSeq(text, j + 1, j + 1) \notin WhiteSpace
      trimmed == SubSeq(text, blanks + 1, Len(text))
      signed == Len(trimmed) > 0 /\ SubSeq(trimmed, 1, 1) \in {"-", "+"}
      negative == signed /\ SubSeq(trimmed, 1, 1) = "-"
      unsigned == IF signed THEN SubSeq(trimmed, 2, Len(trimmed)) ELSE trimmed
      hex == Len(unsigned) >= 2 /\ SubSeq(unsigned, 1, 2) \in {"0x", "0X"}
      radix == IF hex THEN 16 ELSE 10
      digits == IF hex THEN SubSeq(unsigned, 3, Len(unsigned)) ELSE unsigned
      k == CHOOSE j \in 0..Len(digits) :
             /\ \A i \in 1..j : IsDigit(SubSeq(digits, i, i), radix)
             /\ j < Len(digits) => ~IsDigit(SubSeq(digits, j + 1, j + 1), radix)
      Val[i \in 0..k] ==
        IF i = 0 THEN 0
        ELSE Val[i - 1] * radix + DigitValue(SubSeq(digits, i, i), radix)
  IN IF k = 0 THEN JNaN ELSE JNum(IF negative THEN 0 - Val[k] ELSE Val[k])

\* parseInt(e.target.value) || 0
InstanceIndexOf(text) == IF Truthy(ParseInt(text)) THEN ParseInt(text).n ELSE 0

\* the values a field can be given: a text input takes any text, the role
\* Select its items, the instance index what parseInt makes of the text
FieldValues(field) ==
  CASE field = "role" -> RoleItems
    [] field = "instance_index" -> { InstanceIndexOf(text) : text \in InstanceTexts }
    [] OTHER -> {"", ArgsHiring[field]}

\* handleInputChange(field, value)
HandleInputChange(p, field, value) == [p EXCEPT !.fields[field] = value]

\* the operation a page calls
PageOp(kind) == IF kind = "BiasDetection" THEN "detect" ELSE "generateReport"

\* the arguments the submit handler passes: detect gets no role,
\* generateReport gets form.role
PageArgs(p) ==
  [file |-> p.file, model_name |-> p.fields.model_name,
   model_version |-> p.fields.model_version,
   target_variable |-> p.fields.target_variable,
   sensitive_attribute |-> p.fields.sensitive_attribute,
   privileged_group |-> p.fields.privileged_group,
   unprivileged_group |-> p.fields.unprivileged_group,
   instance_index |-> 0,
   role |-> IF p.kind = "ComplianceReport" THEN JStr(p.fields.role) ELSE JUndefined]

\* the result card of BiasDetection renders: nothing without a result, else
\* result.metrics must not be null or undefined, each metric is a number or
\* absent (?.toFixed), result.recommendations has .map, and what is shown as
\* text is no object
BiasResultRenders(result) ==
  \/ ~Truthy(result)
  \/ /\ IsReactChild(GetMember(result, "audit_status"))
     /\ IsReactChild(GetMember(result, "record_count"))
     /\ GetMember(result, "metrics").t \notin {"undefined", "null"}
     /\ \A key \in {"disparate_impact", "statistical_parity_difference",
                     "equal_opportunity_difference", "average_odds_difference"} :
          GetMember(GetMember(result, "metrics"), key).t \in {"undefined", "null", "number"}
     /\ GetMember(result, "recommendations").t = "array"
     /\ \A i \in 1..Len(GetMember(result, "recommendations").f) :
          IsReactChild(GetMember(result, "recommendations").f[i])

\* the render of the page completes; a render that throws leaves nothing of
\* the page on the screen.  The mock result of Explainability and the state
\* of ComplianceReport hold everything their renders read.
PageRenders(p) == p.kind = "BiasDetection" => BiasResultRenders(p.result)

\* SubmitEnabled of a button that is never disabled
SubmitEnabled_Always(p) == PageRenders(p)

\* the submit button is on the screen and enabled: disabled={loading}
SubmitEnabled(p) == PageRenders(p) /\ ~p.loading

\* the page after the synchronous part of handleSubmit / handleGenerateReport:
\* validateForm failed and has shown its toast, or setLoading(true) and the
\* handler is at its await
Submitted(p) ==
  IF ValidateForm(p)
    THEN [p EXCEPT !.loading = TRUE, !.pc = "awaiting", !.submits = p.submits + 1,
                   !.closure = IF p.kind = "Explainability" THEN p.fields ELSE p.closure]
    ELSE [p EXCEPT !.toast = ValidationToast(p)]

\* mockStatus of handleGenerateReport
MockStatus ==
  [gdpr |-> "compliant", eeoc |-> "non-compliant", eu_ai_act |-> "non-compliant",
   internal_policy |-> "compliant"]

\* value ?? fallback
Nullish(value, fallback) == IF value.t \in {"undefined", "null"} THEN fallback ELSE value

\* the try block of BiasDetection.handleSubmit throws after the await:
\* reading record_count of null or undefined, or a record_count that the
\* template literal cannot convert to a string
BiasTryThrows(result) ==
  \/ result.t \in {"undefined", "null"}
  \/ ToTextThrows(Nullish(GetMember(result, "record_count"), JNum(0)))

\* the try block of BiasDetection.handleSubmit after the await, with its
\* catch: setResult, then the toast; on a throw the catch block shows its
\* toast
BiasSuccess(p, result) ==
  IF BiasTryThrows(result)
    THEN [p EXCEPT !.result = result,
                   !.toast = [title |-> "Analysis failed",
                              description |-> "Failed to perform bias detection"]]
    ELSE [p EXCEPT !.result = result,
                   !.toast = [title |-> "Bias detection completed",
                              description |-> "Analysis completed for "
                                \o ToText(Nullish(GetMember(result, "record_count"), JNum(0)))
                                \o " records"]]

\* the catch block of BiasDetection.handleSubmit
BiasCatch(p, error) ==
  [p EXCEPT !.toast = [title |-> "Analysis failed",
                       description |-> ToastMessage(error, "Failed to perform bias detection")]]

\* the try block of handleGenerateReport after the await
ReportSuccess(p, blob) ==
  [p EXCEPT !.pdfBlob = blob, !.complianceStatus = MockStatus, !.reportGenerated = TRUE,
            !.toast = [title |-> "Compliance report generated",
                       description |-> "Report is ready for download"]]

\* the catch block of handleGenerateReport
ReportCatch(p, error) ==
  [p EXCEPT !.toast = [title |-> "Report generation failed",
                       description |-> ToastMessage(error, "Failed to generate compliance report")]]

\* the finally block of the submit handlers
PageFinally(p) == [p EXCEPT !.loading = FALSE, !.pc = "idle"]

\* PageContinue marking the report as generated in the finally block
PageContinue_GeneratedInFinally(p, after) ==
  IF p.pc /= "awaiting" \/ p.kind = "Explainability" \/ after[PageCall].pc /= "done" THEN p
  ELSE IF p.kind = "BiasDetection"
    THEN PageFinally(IF after[PageCall].settled = "fulfilled"
                       THEN BiasSuccess(p, after[PageCall].value)
                       ELSE BiasCatch(p, after[PageCall].error))
  ELSE [PageFinally(IF after[PageCall].settled = "fulfilled"
                      THEN ReportSuccess(p, after[PageCall].value)
                      ELSE ReportCatch(p, after[PageCall].error))
          EXCEPT !.reportGenerated = TRUE]

\* the submit handler of a page from its await on, run when the calls have
\* become `after`: it resumes when the call of the page has settled
PageContinue(p, after) ==
  IF p.pc /= "awaiting" \/ p.kind = "Explainability" \/ after[PageCall].pc /= "done" THEN p
  ELSE IF p.kind = "BiasDetection"
    THEN PageFinally(IF after[PageCall].settled = "fulfilled"
                       THEN BiasSuccess(p, after[PageCall].value)
                       ELSE BiasCatch(p, after[PageCall].error))
  ELSE PageFinally(IF after[PageCall].settled = "fulfilled"
                     THEN ReportSuccess(p, after[PageCall].value)
                     ELSE ReportCatch(p, after[PageCall].error))

\* mockResult of Explainability.handleSubmit, built from the form the handler
\* has captured; the decimal numbers are given in thousandths
ExplainMockResult(fields) ==
  JObj(<< <<"model_name", JStr(fields.model_name)>>,
          <<"model_version", JStr(fields.model_version)>>,
          <<"instance_index", JNum(fields.instance_index)>>,
          <<"shap_values",
            JObj(<< <<"experience", JNum(-119)>>, <<"education", JNum(71)>>,
                    <<"gender", JNum(-109)>>, <<"age", JNum(12)>> >>)>>,
          <<"feature_importance",
            JArr(<< JObj(<< <<"feature", JStr("experience")>>, <<"importance", JNum(119)>>,
                            <<"direction", JStr("negative")>> >>),
                    JObj(<< <<"feature", JStr("gender")>>, <<"importance", JNum(109)>>,
                            <<"direction", JStr("negative")>> >>),
                    JObj(<< <<"feature", JStr("education")>>, <<"importance", JNum(71)>>,
                            <<"direction", JStr("positive")>> >>),
                    JObj(<< <<"feature", JStr("age")>>, <<"importance", JNum(12)>>,
                            <<"direction", JStr("positive")>> >>) >>)>>,
          <<"natural_language_explanation", JStr("Executive Summary: The model's decisions are significantly influenced by gender and experience factors, showing potential bias concerns that require immediate attention for compliance with fairness regulations.")>>,
          <<"role", JStr(fields.role)>>,
          <<"recommendations", JArr(<< JStr("Gender has a negative impact on outcomes. Consider implementing fairness-aware retraining."),
                  JStr("Monitor model performance quarterly to ensure continued fairness and compliance.") >>)>> >>)

\* the fields a page shows as text inputs or selects
PageFields(kind) ==
  CASE kind = "BiasDetection" -> FieldNames6
    [] kind = "ComplianceReport" -> FieldNames6 \cup {"role"}
    [] kind = "Explainability" ->
         {"model_name", "model_version", "target_variable", "sensitive_attribute",
          "instance_index", "role"}

\* the user edits a field; the sensitive attribute is a Select, which has no
\* empty item
InputChange ==
  /\ page.kind \in PageKinds
  /\ PageRenders(page)
  /\ \E field \in PageFields(page.kind) :
       \E value \in FieldValues(field) \ (IF field = "sensitive_attribute" THEN {""} ELSE {}) :
         /\ page.fields[field] /= value
         /\ page' = HandleInputChange(page, field, value)
  /\ UNCHANGED <<env, API_BASE_URL, calls, dash>>

\* the user drops or picks a file; the drop zone is rendered while the
\* FileUpload has no selected file
FileChange ==
  /\ page.kind \in PageKinds
  /\ PageRenders(page)
  /\ page.selectedFile = JNull
  /\ \E file \in Files : page' = HandleFileChange(page, file)
  /\ UNCHANGED <<env, API_BASE_URL, calls, dash>>

\* the user clicks the X of the selected file
FileRemove ==
  /\ page.kind \in PageKinds
  /\ PageRenders(page)
  /\ page.selectedFile /= JNull
  /\ page' = RemoveFile(page)
  /\ UNCHANGED <<env, API_BASE_URL, calls, dash>>

\* the user clicks the submit button: handleSubmit / handleGenerateReport up
\* to the await.  BiasDetection and ComplianceReport call the data-access
\* layer, Explainability starts its mock delay.  The call of the running
\* handler is call 1; an earlier call whose timer is still armed goes on
\* behind it.
Submit ==
  /\ page.kind \in PageKinds
  /\ SubmitEnabled(page)
  /\ ValidateForm(page) => page.submits < MaxSubmits
  /\ page' = Submitted(page)
  /\ calls' = IF ValidateForm(page) /\ page.kind /= "Explainability"
                THEN << Started(IdleCall, PageOp(page.kind), PageArgs(page)) >>
                       \o Orphans(calls)
                ELSE calls
  /\ UNCHANGED <<env, API_BASE_URL, dash>>

\* the mock delay of Explainability.handleSubmit is over: setResult, toast,
\* finally
ExplainMockDone ==
  /\ page.kind = "Explainability"
  /\ page.pc = "awaiting"
  /\ page' = PageFinally(
       [page EXCEPT !.result = ExplainMockResult(page.closure),
                    !.toast = [title |-> "Explainability analysis completed",
                               description |-> "Generated explanation for "
                                 \o page.closure.role \o " role"]])
  /\ UNCHANGED <<env, API_BASE_URL, calls, dash>>

\* handleDownloadReport; its button is rendered once reportGenerated
Download ==
  /\ page.kind = "ComplianceReport"
  /\ page.reportGenerated
  /\ page' = [page EXCEPT !.toast =
       IF Truthy(page.pdfBlob)
         THEN [title |-> "Download started",
               description |-> "Ethical_AI_Compliance_Report.pdf"]
         ELSE [title |-> "Download failed",
               description |-> "No report available for download"]]
  /\ UNCHANGED <<env, API_BASE_URL, calls, dash>>

\* the responses the pages are run against, per operation: for the Dashboard
\* DashResponses; for detect a success with a bias result, with another
\* object, with `null` and with a body that is not JSON; for generateReport,
\* which takes any success body as the document, two success bodies; and for
\* both a failing status with a message and with `null`
AppResponses(op) ==
  IF op \in JsonOps THEN DashResponses
  ELSE { r \in Responses :
           \/ /\ r.status = 200
              /\ r.body \in IF op = "detect"
                              THEN {BodyBiasResult, BodySummary, BodyNull, BodyHtml}
                              ELSE {BodySummary, BodyHtml}
           \/ r.status = 422 /\ r.body \in {BodyMessage, BodyNull} }

\* the application shows the Dashboard (page.kind = "none") or a form page
InitApp ==
  /\ env = JUndefined
  /\ API_BASE_URL = ResolveBaseUrl(env)
  /\ dash = DashInit
  /\ \/ page = NoPage /\ calls = [c \in DashIds |-> IdleCall]
     \/ \E kind \in PageKinds : page = PageInit(kind) /\ calls = [c \in {PageCall} |-> IdleCall]

\* a step of a call, followed at once by the continuation of the page shown
AppFrame ==
  /\ IF page.kind = "none"
       THEN dash' = Continue(dash, calls') /\ page' = page
       ELSE page' = PageContinue(page, calls') /\ dash' = dash
  /\ UNCHANGED <<env, API_BASE_URL>>

NextApp ==
  \/ page.kind = "none" /\ DashFetch
  \/ InputChange
  \/ FileChange
  \/ FileRemove
  \/ Submit
  \/ ExplainMockDone
  \/ Download
  \/ \E c \in DOMAIN calls : AppTick(c) /\ AppFrame
  \/ \E c \in DOMAIN calls : \E response \in AppResponses(calls[c].op) :
       FetchResolve(c, response) /\ AppFrame
  \/ \E c \in DOMAIN calls, error \in PageFetchErrors : FetchReject(c, error) /\ AppFrame
  \/ \E c \in DOMAIN calls, error \in AbortErrors : FireTimer(c, error) /\ AppFrame
  \/ \E c \in DOMAIN calls : ReadErrorBody(c) /\ AppFrame
  \/ \E c \in DOMAIN calls : ReadBody(c) /\ AppFrame

SpecApp == InitApp /\ [][NextApp]_vars

TypeOK ==
  \A c \in DOMAIN calls :
    /\ calls[c].pc \in {"idle", "fetch", "errBody", "okBody", "done"}
    /\ calls[c].timer \in {"none", "armed", "cleared", "fired"}
    /\ calls[c].settled \in {"pending", "fulfilled", "rejected"}

(***************************************************************************)
(* Vocabulary of the properties.                                            *)
(***************************************************************************)
Done(call) == call.pc = "done"
Received(call) == call.respAt >= 0

\* the fetch of the call rejected (no response), with this error
FetchFailed(call) == Done(call) /\ ~Received(call) /\ call.settled = "rejected"

\* the four forms of ApiError
IsTimeout(e) == e.isApiError /\ e.status = 0 /\ e.message = TimeoutMessage
IsCannotConnect(e) == e.isApiError /\ e.status = 0 /\ e.message = CannotConnectMessage
IsUnclassified(e) == e.isApiError /\ e.status = 0 /\ e.message = UnclassifiedMessage
IsServerReported(call) ==
  /\ call.error.isApiError
  /\ Received(call)
  /\ call.error.status = call.response.status
  /\ call.error.status /= 0

\* the deadline the specification gives to each operation
SpecDeadlineMs(op) == IF op \in JsonOps THEN JsonTimeoutMs ELSE FormTimeoutMs

----------------------------------------------------------------------------
\* C1: every call that has settled either fulfilled with a payload or rejected
\* with an ApiError of one of the four forms (timeout, cannot connect,
\* unclassified, server-reported); no other error reaches the caller.
C1_Totality ==
  \A c \in DOMAIN calls :
    Done(calls[c]) =>
      \/ calls[c].settled = "fulfilled"
      \/ /\ calls[c].settled = "rejected"
         /\ \/ IsTimeout(calls[c].error)
            \/ IsCannotConnect(calls[c].error)
            \/ IsUnclassified(calls[c].error)
            \/ IsServerReported(calls[c])

\* C2: a call that has run past the deadline of its mode without a response
\* within the deadline has rejected with the timeout ApiError, and no call
\* fulfils with a payload that was there only after its deadline.
C2_Deadline ==
  \A c \in DOMAIN calls :
    LET call == calls[c]
        deadline == SpecDeadlineMs(call.op)
    IN /\ ( /\ call.pc /= "idle"
            /\ call.elapsed > deadline
            /\ ~(Received(call) /\ call.respAt <= deadline)
            /\ ~(Done(call) /\ call.doneAt <= deadline) )
          => (Done(call) /\ call.settled = "rejected" /\ IsTimeout(call.error))
       /\ (Done(call) /\ call.settled = "fulfilled") => call.doneAt <= deadline

\* C3: a call that received a response with status >= 400 has rejected with an
\* ApiError whose status is the status of the response, whatever the body.
C3_StatusOfFailure ==
  \A c \in DOMAIN calls :
    (Done(calls[c]) /\ Received(calls[c]) /\ calls[c].response.status >= 400) =>
      /\ calls[c].settled = "rejected"
      /\ calls[c].error.isApiError
      /\ calls[c].error.status = calls[c].response.status

\* the message and raw body C4 states for a response with a failing status
C4_Message(response) ==
  IF IsJson(response.body) /\ JsonParse(response.body).t = "object"
     /\ GetMember(JsonParse(response.body), "message").t = "string"
    THEN GetMember(JsonParse(response.body), "message").s
    ELSE "HTTP " \o ToString(response.status) \o ": " \o response.statusText

C4_RawBody(response) ==
  IF IsJson(response.body) THEN JsonParse(response.body) ELSE EmptyRecord

\* C4: for a response with a failing status the message of the ApiError is the
\* message field of the parsed body whenever the field is present (the empty
\* string included) and "HTTP <status>: <status text>" otherwise, and the raw
\* body of the ApiError is the parsed body (the empty record if unparseable).
C4_MessageOfFailure ==
  \A c \in DOMAIN calls :
    (Done(calls[c]) /\ Received(calls[c]) /\ ~Ok(calls[c].response)) =>
      /\ calls[c].error.message = C4_Message(calls[c].response)
      /\ calls[c].error.response = C4_RawBody(calls[c].response)

\* what the network did to a call: the response, or the error fetch rejected with
NetworkBehaviour(call) ==
  IF Received(call) THEN [response |-> call.response, fetchError |-> NoError]
                    ELSE [response |-> NoResponse, fetchError |-> call.thrown]

\* C5: when a generateReport call has failed, an apiFormRequest call that met
\* the same network behaviour has failed too, and both rejected with an
\* ApiError, equal in status and message.
C5_SameFailures ==
  \A c \in DOMAIN calls, d \in DOMAIN calls :
    ( /\ calls[c].op = "generateReport"
      /\ calls[d].op \in FormOps
      /\ Done(calls[c])
      /\ Done(calls[d])
      /\ NetworkBehaviour(calls[c]) = NetworkBehaviour(calls[d])
      /\ calls[c].settled = "rejected" )
    => /\ calls[d].settled = "rejected"
       /\ calls[c].error.isApiError
       /\ calls[d].error.isApiError
       /\ calls[c].error.status = calls[d].error.status
       /\ calls[c].error.message = calls[d].error.message

\* C6: a call whose fetch rejected with a network-level error (a TypeError that
\* is not an abort) has rejected with ApiError{0, cannot connect}, whatever
\* the text of the error.
C6_CannotConnect ==
  \A c \in DOMAIN calls :
    (FetchFailed(calls[c]) /\ calls[c].thrown \in FetchTypeErrors) =>
      (IsCannotConnect(calls[c].error) /\ calls[c].error.response = JUndefined)

\* C7: a call made through apiRequest or apiFormRequest whose fetch was
\* aborted (AbortError) has rejected with ApiError{0, request timeout}, not
\* with the cannot-connect or the unclassified form.
C7_AbortIsTimeout ==
  \A c \in DOMAIN calls :
    (Done(calls[c]) /\ HasCatch(calls[c].op) /\ calls[c].thrown.name = "AbortError") =>
      /\ calls[c].settled = "rejected"
      /\ calls[c].error = ApiError(TimeoutMessage, 0, JUndefined)
      /\ ~IsCannotConnect(calls[c].error)
      /\ ~IsUnclassified(calls[c].error)

\* the deadline timer of a multipart call fired while its fetch was pending
C7_Witness ==
  \E c \in DOMAIN calls :
    /\ calls[c].op \in FormOps
    /\ Done(calls[c])
    /\ calls[c].timer = "fired"
    /\ calls[c].doneAt >= FormTimeoutMs
    /\ calls[c].thrown.name = "AbortError"
    /\ IsTimeout(calls[c].error)

\* a network-level error the catch block recognises
Recognised(e) == e.name = "TypeError" /\ Includes(e.message, "fetch")

\* C8: a throw that is neither an ApiError nor an abort nor a recognised
\* network-level error rejects the call with ApiError{0, network error or
\* server unavailable}, and with neither of the other two status-0 forms.
C8_Unclassified ==
  \A c \in DOMAIN calls :
    ( /\ Done(calls[c])
      /\ calls[c].thrown /= NoError
      /\ ~calls[c].thrown.isApiError
      /\ calls[c].thrown.name /= "AbortError"
      /\ ~Recognised(calls[c].thrown) )
    => /\ calls[c].settled = "rejected"
       /\ IsUnclassified(calls[c].error)
       /\ ~IsTimeout(calls[c].error)
       /\ ~IsCannotConnect(calls[c].error)

\* the decoded form of BodySummary
C9_DecodedSummary ==
  JObj(<< <<"total_models_audited", JNum(12)>>, <<"audit_status", JStr("COMPLIANT")>> >>)

\* C9: a JSON-mode call that received a success status with a parseable body
\* has fulfilled with the decoded body, no member added, removed or changed;
\* a 200 with total_models_audited 12 gives a payload with that member 12.
C9_JsonRoundTrip ==
  \A c \in DOMAIN calls :
    ( /\ Done(calls[c])
      /\ calls[c].op \in JsonOps
      /\ Received(calls[c])
      /\ Ok(calls[c].response)
      /\ IsJson(calls[c].response.body) )
    => /\ calls[c].settled = "fulfilled"
       /\ calls[c].value = JsonParse(calls[c].response.body)
       /\ calls[c].response.body = BodySummary =>
            /\ calls[c].value = C9_DecodedSummary
            /\ GetMember(calls[c].value, "total_models_audited") = JNum(12)

\* getSummary has fulfilled with the summary of a 200 response
C9_Witness ==
  \E c \in DOMAIN calls :
    /\ calls[c].op = "getSummary"
    /\ Done(calls[c])
    /\ calls[c].response.status = 200
    /\ calls[c].response.body = BodySummary
    /\ calls[c].settled = "fulfilled"
    /\ GetMember(calls[c].value, "total_models_audited").n = 12

\* the call met a failure: something was thrown, or the response is not ok
Failed(call) == call.thrown /= NoError \/ (Received(call) /\ ~Ok(call.response))

\* C10: every call makes exactly one fetch and never a second one, and a call
\* that failed has rejected with an ApiError (never fulfilled).
C10_OneShot ==
  \A c \in DOMAIN calls :
    /\ calls[c].fetches <= 1
    /\ calls[c].pc /= "idle" => calls[c].fetches = 1
    /\ (Done(calls[c]) /\ Failed(calls[c])) =>
         (calls[c].settled = "rejected" /\ calls[c].error.isApiError)

\* C11: in every ApiError a call rejected with, status is 0 exactly when no
\* HTTP response was received, and when a response was received (with a
\* failing status or not) the status is the status code of that response.
C11_StatusInvariant ==
  \A c \in DOMAIN calls :
    (Done(calls[c]) /\ calls[c].settled = "rejected" /\ calls[c].error.isApiError) =>
      /\ calls[c].error.status = 0 <=> ~Received(calls[c])
      /\ Received(calls[c]) => calls[c].error.status = calls[c].response.status

\* the call has been made: its request has been handed to fetch
Issued(call) == call.pc /= "idle"

\* the names of the fields of a form, in order
FieldNames(form) == [i \in 1..Len(form) |-> form[i][1]]

\* the fields the catalog declares for the multipart operations
C16_Declared(op) ==
  CASE op = "detect" ->
         <<"file", "model_name", "model_version", "target_variable", "sensitive_attribute",
           "privileged_group", "unprivileged_group">>
    [] op = "explain" ->
         <<"file", "model_name", "model_version", "target_variable", "sensitive_attribute",
           "instance_index", "role">>
    [] op = "generateReport" ->
         <<"file", "model_name", "model_version", "target_variable", "sensitive_attribute",
           "privileged_group", "unprivileged_group", "role">>

\* the decimal numeral of a natural number
RECURSIVE C16_Decimal(_)
C16_Decimal(n) ==
  IF n < 10 THEN SubSeq("0123456789", n + 1, n + 1)
            ELSE C16_Decimal(n \div 10) \o SubSeq("0123456789", (n % 10) + 1, (n % 10) + 1)

\* the caller's argument for a field of the form, as text
C16_Argument(args, name) ==
  CASE name = "model_name" -> args.model_name
    [] name = "model_version" -> args.model_version
    [] name = "target_variable" -> args.target_variable
    [] name = "sensitive_attribute" -> args.sensitive_attribute
    [] name = "privileged_group" -> args.privileged_group
    [] name = "unprivileged_group" -> args.unprivileged_group
    [] name = "instance_index" -> C16_Decimal(args.instance_index)
    [] name = "role" -> IF args.role = JUndefined THEN "executive" ELSE args.role.s

\* C16: the form of a multipart operation has exactly the declared fields,
\* once each, in the declared order, file first; file is the caller's file
\* and every other field is a string equal to the caller's argument
\* (instance_index as its decimal string).
C16_FieldOrder ==
  \A c \in DOMAIN calls :
    (Issued(calls[c]) /\ calls[c].op \notin JsonOps) =>
      /\ FieldNames(calls[c].body) = C16_Declared(calls[c].op)
      /\ calls[c].body[1][2] = calls[c].args.file
      /\ \A i \in 2..Len(calls[c].body) :
           /\ calls[c].body[i][2].t = "string"
           /\ calls[c].body[i][2].s = C16_Argument(calls[c].args, calls[c].body[i][1])

\* detect has been called with (f, m1, 1.0, hired, gender, Male, Female)
C16_Witness ==
  \E c \in DOMAIN calls :
    /\ Issued(calls[c])
    /\ calls[c].op = "detect"
    /\ calls[c].args.privileged_group = "Male"
    /\ Len(calls[c].body) = 7
    /\ calls[c].body[2] = <<"model_name", JStr("m1")>>
    /\ calls[c].body[6] = <<"privileged_group", JStr("Male")>>
    /\ calls[c].body[7] = <<"unprivileged_group", JStr("Female")>>

\* C17: generateReport sends role 'executive' when the caller omits the role
\* and the caller's value when one is supplied; role is always present, once,
\* and is the last field of the form.
C17_RoleDefault ==
  \A c \in DOMAIN calls :
    (Issued(calls[c]) /\ calls[c].op = "generateReport") =>
      LET form == calls[c].body IN
      /\ Len(form) > 0
      /\ form[Len(form)][1] = "role"
      /\ Cardinality({i \in 1..Len(form) : form[i][1] = "role"}) = 1
      /\ form[Len(form)][2] =
           IF calls[c].args.role = JUndefined THEN JStr("executive") ELSE calls[c].args.role

\* generateReport has been called without a role
C17_Witness ==
  \E c \in DOMAIN calls :
    /\ Issued(calls[c])
    /\ calls[c].op = "generateReport"
    /\ calls[c].args.role = JUndefined
    /\ calls[c].body[8] = <<"role", JStr("executive")>>

\* the method and path the catalog declares for each operation
C18_Declared(op) ==
  CASE op = "getSummary" -> <<"GET", "/api/v1/dashboard/summary">>
    [] op = "getModelRisk" -> <<"GET", "/api/v1/dashboard/model_risk">>
    [] op = "getComplianceTrend" -> <<"GET", "/api/v1/dashboard/compliance_trend">>
    [] op = "detect" -> <<"POST", "/api/v1/bias/detect">>
    [] op = "explain" -> <<"POST", "/api/v1/explain">>
    [] op = "generateReport" -> <<"POST", "/api/v1/compliance/generate">>

\* C18: every operation issues its single request with the declared method to
\* the base address followed by the declared path; the GET operations carry
\* no body and go through the JSON executor (JSON content type, 10 s timer),
\* the POST operations carry a multipart body that starts with the file.
C18_MethodAndPath ==
  \A c \in DOMAIN calls :
    Issued(calls[c]) =>
      /\ calls[c].fetches = 1
      /\ calls[c].method = C18_Declared(calls[c].op)[1]
      /\ calls[c].url = API_BASE_URL \o C18_Declared(calls[c].op)[2]
      /\ calls[c].method = "GET" =>
           /\ calls[c].body = <<>>
           /\ calls[c].contentType = "application/json"
           /\ calls[c].timer /= "none"
      /\ calls[c].method = "POST" =>
           /\ calls[c].body /= <<>>
           /\ calls[c].body[1][1] = "file"
           /\ calls[c].body[1][2].t = "file"

\* explain has been requested at the default base address
C18_Witness ==
  \E c \in DOMAIN calls :
    /\ Issued(calls[c])
    /\ calls[c].op = "explain"
    /\ calls[c].method = "POST"
    /\ calls[c].url = "http://localhost:8000/api/v1/explain"

\* C20 as stated: the base address is the configured VITE_API_BASE_URL, and
\* the default only when that value is unset.
C20_ConfiguredOrUnset ==
  API_BASE_URL = IF env = JUndefined THEN "http://localhost:8000" ELSE env.s

\* C20 as amended: the base address is the configured VITE_API_BASE_URL, or
\* 'http://localhost:8000' when that value is unset or empty; no step
\* changes it, and every request uses it.
C20_BaseAddress ==
  /\ [](/\ API_BASE_URL =
             IF env = JUndefined \/ env = JStr("") THEN "http://localhost:8000" ELSE env.s
        /\ \A c \in DOMAIN calls :
             Issued(calls[c]) => calls[c].url = API_BASE_URL \o calls[c].path)
  /\ [][API_BASE_URL' = API_BASE_URL]_vars

\* a request has gone to a configured base address
C20_Witness ==
  \E c \in DOMAIN calls :
    /\ env = JStr("https://api.example.com")
    /\ Issued(calls[c])
    /\ calls[c].op = "getSummary"
    /\ calls[c].url = "https://api.example.com/api/v1/dashboard/summary"

\* C15: every call arms its own deadline timer when it starts, and the firing
\* of the timer of one call changes nothing of any other call.
C15_OwnTimer ==
  [][ \A c \in DOMAIN calls :
        /\ (calls[c].pc = "idle" /\ calls'[c].pc /= "idle") => calls'[c].timer = "armed"
        /\ (calls[c].timer = "armed" /\ calls'[c].timer = "fired") =>
             \A d \in DOMAIN calls \ {c} : calls'[d] = calls[d] ]_vars

\* C19: two calls of the same operation that met the same failure (the same
\* error of fetch, or the same response) have both rejected with an ApiError,
\* and the two ApiErrors are equal in status and message, whatever the
\* timing and order of the calls.
C19_Deterministic ==
  \A c \in DOMAIN calls, d \in DOMAIN calls :
    ( /\ Done(calls[c])
      /\ Done(calls[d])
      /\ calls[c].op = calls[d].op
      /\ NetworkBehaviour(calls[c]) = NetworkBehaviour(calls[d])
      /\ calls[c].settled = "rejected" )
    => /\ calls[d].settled = "rejected"
       /\ calls[c].error.isApiError
       /\ calls[d].error.isApiError
       /\ calls[c].error.status = calls[d].error.status
       /\ calls[c].error.message = calls[d].error.message

(***************************************************************************)
(* The Dashboard aggregation (checked under SpecDash)                        *)
(***************************************************************************)
Fulfilled(call) == call.settled = "fulfilled"
Rejected(call) == call.settled = "rejected"
DisplayedPair == <<dash.dashboardData, dash.modelRisks>>
FallbackPair == <<FallbackSummary, JArr(<<>>)>>

\* C12: the Dashboard never merges a partial success.  Once a run of
\* fetchDashboardData has returned, the pair (dashboardData, modelRisks) is
\* either the two payloads of this run, both calls of which fulfilled, or
\* (fallback summary, empty list); and at every moment, refreshes included, a
\* fallback summary goes with the empty list and the empty list with a
\* fallback summary (or with the null of a page that has shown nothing yet).
C12_NoPartialMerge ==
  /\ dash.pc = "settled" =>
       \/ /\ \A c \in DashIds : Fulfilled(calls[c])
          /\ DisplayedPair = <<calls[SummaryCall].value, calls[ModelRiskCall].value>>
       \/ /\ \E c \in DashIds : Rejected(calls[c])
          /\ DisplayedPair = FallbackPair
  /\ dash.dashboardData = FallbackSummary => dash.modelRisks = JArr(<<>>)
  /\ (dash.modelRisks = JArr(<<>>) /\ dash.dashboardData /= FallbackSummary) =>
       dash.dashboardData = JNull /\ dash.loading /\ dash.fetches <= 1

\* after a refresh the summary arrived but the model-risk call failed: the
\* page shows the fallback pair
C12_Witness ==
  /\ dash.pc = "settled"
  /\ dash.fetches = 2
  /\ Fulfilled(calls[SummaryCall])
  /\ calls[SummaryCall].value = JsonParse(BodySummary)
  /\ Rejected(calls[ModelRiskCall])
  /\ DisplayedPair = FallbackPair
  /\ ~dash.loading

\* C13 as stated: the aggregate waits for both calls before it proceeds;
\* whenever fetchDashboardData has gone on (data set, fallback taken, loading
\* cleared), neither call is still in flight.
C13_WaitsForBoth ==
  (dash.pc = "settled" \/ ~dash.loading) => \A c \in DashIds : Done(calls[c])

\* C13 amended: the aggregate goes on either when both calls have fulfilled
\* or as soon as one call has rejected, and not before; while it awaits, no
\* call has rejected, some call is in flight and the loading flag is set.
C13_WaitsUnlessFailed ==
  /\ dash.pc = "settled" =>
       \/ \A c \in DashIds : Fulfilled(calls[c])
       \/ \E c \in DashIds : Rejected(calls[c])
  /\ (dash.pc = "settled" /\ DisplayedPair /= FallbackPair) =>
       \A c \in DashIds : Done(calls[c])
  /\ dash.pc = "awaiting" =>
       /\ \A c \in DashIds : ~Rejected(calls[c])
       /\ \E c \in DashIds : ~Done(calls[c])
       /\ dash.loading
  /\ ~dash.loading => dash.pc = "settled"

\* the summary call has failed and the page has fallen back while the
\* model-risk call is still in flight
C13_Witness ==
  /\ dash.pc = "settled"
  /\ Rejected(calls[SummaryCall])
  /\ calls[ModelRiskCall].pc = "fetch"
  /\ DisplayedPair = FallbackPair
  /\ ~dash.loading

\* the final (dashboardData, modelRisks, loading) for a pair of outcomes
C14_Final(summary, modelRisk) ==
  IF Fulfilled(summary) /\ Fulfilled(modelRisk)
    THEN <<summary.value, modelRisk.value, FALSE>>
    ELSE <<FallbackSummary, JArr(<<>>), FALSE>>

\* C14: both dashboard calls are dispatched before the await, and the final
\* (dashboardData, modelRisks, loading) is a function of the two outcomes
\* alone, whichever call resolved first; the two results are put on the page
\* only after both calls have resolved.
C14_OrderIndependent ==
  /\ dash.pc = "awaiting" =>
       \A c \in DashIds : Issued(calls[c]) /\ calls[c].fetches = 1
  /\ dash.pc = "settled" =>
       /\ dash.first \in DashIds
       /\ <<dash.dashboardData, dash.modelRisks, dash.loading>> =
            C14_Final(calls[SummaryCall], calls[ModelRiskCall])
       /\ (\A c \in DashIds : ~Rejected(calls[c])) => \A c \in DashIds : Done(calls[c])

\* the model-risk call resolved first, then the summary call; the page shows
\* the summary as dashboardData and the other payload as modelRisks
C14_Witness ==
  /\ dash.pc = "settled"
  /\ dash.first = ModelRiskCall
  /\ \A c \in DashIds : Fulfilled(calls[c])
  /\ calls[SummaryCall].value = JsonParse(BodySummary)
  /\ calls[ModelRiskCall].value = JsonParse(BodyModelRisks)
  /\ dash.dashboardData = calls[SummaryCall].value
  /\ dash.modelRisks = calls[ModelRiskCall].value
  /\ ~dash.loading

(***************************************************************************)
(* The catch block and the timer of the executors (checked under Spec)       *)
(***************************************************************************)
\* C24: an ApiError thrown inside apiRequest or apiFormRequest for a failing
\* HTTP status is rethrown by the catch block as it is: the call rejects with
\* that very error, whose status is the status of the response, whose message
\* is the server's message or the HTTP text and whose raw body is the parsed
\* body; it is none of the status-0 errors.
C24_PassThrough ==
  \A c \in DOMAIN calls :
    (Done(calls[c]) /\ HasCatch(calls[c].op) /\ calls[c].thrown.isApiError) =>
      /\ calls[c].settled = "rejected"
      /\ calls[c].error = calls[c].thrown
      /\ calls[c].error.status = calls[c].response.status
      /\ calls[c].error.status /= 0
      /\ calls[c].error.message =
           ErrorMessage(calls[c].response, ErrorData(calls[c].response))
      /\ calls[c].error.response = ErrorData(calls[c].response)

\* detect was answered 422 with a message and has rejected with that error
C24_Witness ==
  \E c \in DOMAIN calls :
    /\ Done(calls[c])
    /\ calls[c].op = "detect"
    /\ calls[c].response.status = 422
    /\ calls[c].response.body = BodyMessage
    /\ calls[c].thrown = ApiError("missing column", 422, JsonParse(BodyMessage))
    /\ calls[c].error = calls[c].thrown

\* C25: once a call made through apiRequest or apiFormRequest has resolved,
\* with any outcome, its deadline timer is no longer armed, and no timer
\* fires for a call that has finished.
C25_TimerCleanup ==
  \A c \in DOMAIN calls :
    (Done(calls[c]) /\ HasTimer(calls[c].op)) =>
      /\ calls[c].timer /= "armed"
      /\ calls[c].timer = "fired" => IsTimeout(calls[c].error)

\* C26: a response with a success status whose body is not JSON makes a call
\* of apiRequest or apiFormRequest reject with ApiError{0, "Network error or
\* server unavailable"}; such a call never fulfils, and a call that fulfils
\* has the decoded body, never undefined, as its value.
C26_UnparseableSuccess ==
  \A c \in DOMAIN calls :
    (Done(calls[c]) /\ HasCatch(calls[c].op) /\ Received(calls[c]) /\ Ok(calls[c].response)) =>
      IF IsJson(calls[c].response.body)
        THEN /\ calls[c].settled = "fulfilled"
             /\ calls[c].value = JsonParse(calls[c].response.body)
             /\ calls[c].value /= JUndefined
        ELSE /\ calls[c].settled = "rejected"
             /\ calls[c].thrown = JsonSyntaxError
             /\ calls[c].error = ApiError(UnclassifiedMessage, 0, JUndefined)

\* getSummary was answered 200 with an HTML page and has rejected
C26_Witness ==
  \E c \in DOMAIN calls :
    /\ Done(calls[c])
    /\ calls[c].op = "getSummary"
    /\ calls[c].response.status = 200
    /\ calls[c].response.body = BodyHtml
    /\ calls[c].settled = "rejected"
    /\ calls[c].error.message = UnclassifiedMessage
    /\ calls[c].error.status = 0

(***************************************************************************)
(* The pages as callers of the data-access layer (checked under SpecApp)     *)
(***************************************************************************)
CallingPages == {"BiasDetection", "ComplianceReport"}

\* the submit handler of a calling page resumes in this step and its catch
\* block runs: the call has rejected, or the try block of BiasDetection has
\* thrown on the value the call fulfilled with
PageFails ==
  /\ page.kind \in CallingPages
  /\ page.pc = "awaiting"
  /\ page'.pc = "idle"
  /\ \/ Rejected(calls'[PageCall])
     \/ /\ page.kind = "BiasDetection"
        /\ Fulfilled(calls'[PageCall])
        /\ BiasTryThrows(calls'[PageCall].value)

\* fetchDashboardData resumes in this step with a failure
DashFails == page.kind = "none" /\ dash.pc = "awaiting" /\ dash'.pc = "settled"
             /\ \E c \in DashIds : Rejected(calls'[c])

\* C21: for every failed dashboard fetch, bias-detection submit and
\* compliance-report generation, the description of the error toast the page
\* shows is the message of the ApiError the data-access layer produced for the
\* failure, never the generic fallback text of the page.
C21_ToastIsApiErrorMessage ==
  [][ /\ PageFails =>
           /\ calls'[PageCall].error.isApiError
           /\ page'.toast.description = calls'[PageCall].error.message
           /\ page'.toast.description \notin
                {"Failed to perform bias detection", "Failed to generate compliance report"}
      /\ DashFails =>
           /\ \E c \in DashIds : /\ Rejected(calls'[c])
                                 /\ calls'[c].error.isApiError
                                 /\ dash'.toast = calls'[c].error.message
           /\ dash'.toast /= OfflineMessage ]_vars

\* the file and the six fields of a form or of the arguments of a call are
\* all there
Complete(file, fields) ==
  /\ file.t = "file"
  /\ \A field \in FieldNames6 : fields[field] /= ""

\* C22: detect and generateReport are dispatched by the pages only with a
\* file and with model_name, model_version, target_variable,
\* sensitive_attribute, privileged_group and unprivileged_group all
\* non-empty; while the form is not complete no step sends a request or sets
\* the loading flag.
C22_Validated ==
  /\ [](page.kind \in CallingPages /\ Issued(calls[PageCall]) =>
          /\ Complete(calls[PageCall].args.file, calls[PageCall].args)
          /\ \A i \in 1..Len(calls[PageCall].body) :
               calls[PageCall].body[i][2] \notin {JNull, JUndefined, JStr("")})
  /\ [][(page.kind \in CallingPages /\ ~Complete(page.file, page.fields)) =>
          /\ page'.submits = page.submits
          /\ ~page.loading => ~page'.loading
          /\ calls'[PageCall].pc = "fetch" => calls[PageCall].pc = "fetch"]_vars

\* after a request of the page has finished the user has cleared the last
\* field and clicked submit: the validation toast is shown, nothing is sent
C22_Witness ==
  /\ page.kind = "BiasDetection"
  /\ page.submits = 1
  /\ Done(calls[PageCall])
  /\ Complete(calls[PageCall].args.file, calls[PageCall].args)
  /\ page.fields.unprivileged_group = ""
  /\ page.toast = [title |-> "Missing required field",
                   description |-> "Please fill in unprivileged group"]
  /\ ~page.loading

\* C23: submitting a valid Explainability form issues POST /api/v1/explain
\* through explainabilityApi.explain, and the result the page displays is
\* the ExplainabilityResult the server returned.
C23_ExplainRequested ==
  (page.kind = "Explainability" /\ page.submits > 0) =>
    /\ calls[PageCall].op = "explain"
    /\ calls[PageCall].method = "POST"
    /\ calls[PageCall].path = "/api/v1/explain"
    /\ page.result /= JNull =>
         Fulfilled(calls[PageCall]) /\ page.result = calls[PageCall].value

\* C27: on the Dashboard, BiasDetection and ComplianceReport pages the
\* loading flag is false once the call(s) of a started request have resolved,
\* whatever the outcome; and once a dashboard fetch has settled dashboardData
\* is not null: it is the server's summary or the offline fallback.
C27_LoadingEnds ==
  /\ (page.kind = "none" /\ dash.pc /= "unmounted" /\ \A c \in DashIds : Done(calls[c])) =>
       ~dash.loading
  /\ (page.kind \in CallingPages /\ page.submits > 0 /\ Done(calls[PageCall])) =>
       ~page.loading
  /\ (page.kind = "none" /\ dash.pc = "settled") =>
       /\ dash.dashboardData /= JNull
       /\ \/ dash.dashboardData = FallbackSummary
             /\ GetMember(dash.dashboardData, "audit_status") = JStr("offline")
          \/ Fulfilled(calls[SummaryCall]) /\ dash.dashboardData = calls[SummaryCall].value

\* the request of a call is on the network: sent and not yet answered in
\* full, failed or aborted
InFlight(call) == call.pc \in {"fetch", "okBody", "errBody"}

\* C28: no page sends a request while its loading flag is true, and the
\* requests in flight on a page never exceed one request (the form pages) or
\* one aggregate fetch (the Dashboard): every request in flight belongs to
\* the fetch that was started last.
C28_OneInFlight ==
  /\ [][page'.submits /= page.submits => ~page.loading]_vars
  /\ [][dash'.fetches /= dash.fetches => ~dash.loading]_vars
  /\ [](page.kind /= "none" =>
          \A c \in DOMAIN calls, d \in DOMAIN calls :
            (InFlight(calls[c]) /\ InFlight(calls[d])) => c = d)
  /\ [](page.kind = "none" =>
          \A c \in DOMAIN calls : InFlight(calls[c]) => ~calls[c].orphan)

\* C28 as amended.  No page sends a request while a request or aggregate
\* fetch of its own is awaited, and the loading flag is true as long as one
\* is awaited.  A submit handler sends only while the page is not loading.
\* The Dashboard fetches on mount, with the loading flag true from the start
\* and nothing in flight, and afterwards only while it is not loading.  On a
\* form page the only request in flight is the awaited one.  On the
\* Dashboard requests of earlier fetches can be in flight beside the two of
\* the awaited one, at most one for each earlier fetch; what the page shows
\* changes only when the awaited fetch settles, to the results of its own
\* two calls or to the fallback.
C28_OneAwaited ==
  /\ [](page.kind /= "none" =>
          \A c \in DOMAIN calls : InFlight(calls[c]) => c = PageCall /\ page.pc = "awaiting")
  /\ [](page.pc = "awaiting" => page.loading)
  /\ [](dash.pc = "awaiting" => dash.loading)
  /\ [][page'.submits /= page.submits =>
          /\ ~page.loading
          /\ page.pc = "idle"
          /\ page'.submits = page.submits + 1]_vars
  /\ [][dash'.fetches /= dash.fetches =>
          /\ dash.pc /= "awaiting"
          /\ IF dash.fetches = 0
               THEN dash.loading /\ \A c \in DOMAIN calls : ~InFlight(calls[c])
               ELSE ~dash.loading
          /\ dash'.fetches = dash.fetches + 1]_vars
  /\ [](page.kind = "none" =>
          /\ Cardinality({c \in DOMAIN calls : InFlight(calls[c]) /\ ~calls[c].orphan}) <= 2
          /\ Cardinality({c \in DOMAIN calls : InFlight(calls[c]) /\ calls[c].orphan})
               <= (IF dash.fetches = 0 THEN 0 ELSE dash.fetches - 1))
  /\ [][DisplayedPair' /= DisplayedPair =>
          /\ dash.pc = "awaiting"
          /\ dash'.pc = "settled"
          /\ \A c \in DashIds : ~calls'[c].orphan
          /\ \/ DisplayedPair' = <<FallbackSummary, JArr(<<>>)>>
             \/ DisplayedPair' = <<calls'[SummaryCall].value, calls'[ModelRiskCall].value>>]_vars

\* the Dashboard has been refreshed after a fetch that failed on its first
\* rejection: the two requests of the new fetch are in flight and, beside
\* them, the request the failed fetch left behind
C28_Witness ==
  /\ page.kind = "none"
  /\ dash.fetches = 2
  /\ dash.pc = "awaiting"
  /\ dash.loading
  /\ Len(calls) = 3
  /\ \A c \in DOMAIN calls : InFlight(calls[c])
  /\ calls[3].orphan
  /\ calls[3].op = "getSummary"

\* the state a generation of ComplianceReport sets
ReportState == <<page.pdfBlob, page.reportGenerated, page.complianceStatus>>

\* C29: a failed detect leaves BiasDetection.result as it was and a failed
\* generateReport leaves pdfBlob, reportGenerated and complianceStatus as
\* they were: these change only in the step in which the call of the page
\* fulfils, to the value of that call.  Whenever reportGenerated is true,
\* pdfBlob is a blob, the one of the last generation that succeeded.
C29_UnchangedOnFailure ==
  /\ [][page.kind = "ComplianceReport" /\ ReportState' /= ReportState =>
          /\ page.pc = "awaiting"
          /\ ~Done(calls[PageCall])
          /\ Fulfilled(calls'[PageCall])
          /\ ReportState' = <<calls'[PageCall].value, TRUE, MockStatus>>]_vars
  /\ [][page.kind = "BiasDetection" /\ page'.result /= page.result =>
          /\ page.pc = "awaiting"
          /\ ~Done(calls[PageCall])
          /\ Fulfilled(calls'[PageCall])
          /\ page'.result = calls'[PageCall].value]_vars
  /\ [](page.reportGenerated => page.pdfBlob.t = "blob")
  /\ [](page.kind = "ComplianceReport" /\ page.pc = "idle" /\ Fulfilled(calls[PageCall]) =>
          page.reportGenerated /\ page.pdfBlob = calls[PageCall].value)

\* a first generation succeeded, a second one failed: the first document is
\* still the one offered
C29_Witness ==
  /\ page.kind = "ComplianceReport"
  /\ page.submits = 2
  /\ page.pc = "idle"
  /\ Rejected(calls[PageCall])
  /\ page.reportGenerated
  /\ page.pdfBlob = JBlob(BodySummary)
  /\ page.complianceStatus = MockStatus
  /\ page.toast.title = "Report generation failed"

\* C30: the file the FileUpload shows as selected is the file of the form of
\* the page, both absent or both the same file; so after removeFile the form
\* holds no file and validateForm rejects a submit, and a file FileUpload has
\* rejected is never the file of the form.
C30_UploadMatchesForm ==
  page.kind \in PageKinds =>
    /\ page.selectedFile = page.file
    /\ page.selectedFile = JNull => ~ValidateForm(page)
    /\ page.file \notin {BigCsv, NotesTxt}

====
